---- MODULE Spec2Model ----
(***************************************************************************)
(* The work-item status, SLA and escalation logic of the AIOps backend:    *)
(* the ITSM schema and the escalation matrix (static tables and their      *)
(* lookups), the work-item endpoint that writes the stored rows, the SLA   *)
(* check job that sweeps the open rows, the smart score, the automation    *)
(* eligibility test and the business impact calculation.                   *)
(*                                                                         *)
(* Python values are modelled as follows.  A value that may be None is a   *)
(* sequence of length at most one: Absent is None, Present(v) is v.  A     *)
(* dict is a function on its keys.  A float number of minutes is a         *)
(* fraction [num, den]; datetimes are whole seconds on the clock.  The     *)
(* attributes of a row that the sweep computes with (the timestamps and    *)
(* sla_target_minutes) are optional values too.                            *)
(***************************************************************************)
EXTENDS Integers, Sequences, FiniteSets, TLC

VARIABLES rows, now, response

vars == <<rows, now, response>>

(***************************************************************************)
(* Optional values and dict lookups.                                       *)
(***************************************************************************)
Absent == <<>>

Present(v) == <<v>>

\* dict.get(key, default) for an optional string key: None and unknown keys
\* give the default.
DictGet(d, key, default) ==
    IF key # Absent /\ key[1] \in DOMAIN d THEN d[key[1]] ELSE default

\* Python truthiness of an optional string: None and "" are falsy.
Truthy(s) == s # Absent /\ s[1] # ""

\* x in list
InList(x, list) == \E i \in 1..Len(list) : list[i] = x

(***************************************************************************)
(* services/itsm_schema.py                                                 *)
(***************************************************************************)
ITSM_SCHEMA ==
    [incident |-> [statuses |-> <<"new", "in_progress", "resolved", "closed">>,
                   sla |-> [priority_1 |-> 60, priority_2 |-> 120, priority_3 |-> 240]],
     request  |-> [statuses |-> <<"new", "in_progress", "fulfilled", "closed">>,
                   sla |-> [standard |-> 480]],
     problem  |-> [statuses |-> <<"new", "analysis", "resolved", "closed">>,
                   sla |-> [default |-> 1440]]]

\* The empty dict {} that a failed lookup of the work type falls back to.
EmptyDict == <<>>

\* validate_status with an unregistered work type falling back to the
\* incident entry instead of {}.
validate_status_fallback(work_type, status) ==
    LET allowed == DictGet(DictGet(ITSM_SCHEMA, work_type, ITSM_SCHEMA.incident),
                           Present("statuses"), <<>>)
    IN  status # Absent /\ InList(status[1], allowed)

\* work_type: optional string; status: optional string.
validate_status(work_type, status) ==
    LET allowed == DictGet(DictGet(ITSM_SCHEMA, work_type, EmptyDict),
                           Present("statuses"), <<>>)
    IN  status # Absent /\ InList(status[1], allowed)

\* get_sla_target without the fallback to the default entry.
get_sla_target_nodefault(work_type, priority) ==
    LET schema == DictGet(DictGet(ITSM_SCHEMA, work_type, EmptyDict),
                          Present("sla"), EmptyDict)
    IN  IF Truthy(priority) /\ priority[1] \in DOMAIN schema
        THEN Present(schema[priority[1]])
        ELSE Absent

\* get_sla_target falling back to the standard entry as well.
get_sla_target_standard(work_type, priority) ==
    LET schema == DictGet(DictGet(ITSM_SCHEMA, work_type, EmptyDict),
                          Present("sla"), EmptyDict)
    IN  IF Truthy(priority) /\ priority[1] \in DOMAIN schema
        THEN Present(schema[priority[1]])
        ELSE IF "default" \in DOMAIN schema
             THEN Present(schema["default"])
             ELSE IF "standard" \in DOMAIN schema
                  THEN Present(schema["standard"])
                  ELSE Absent

\* work_type, priority: optional strings; the result is an optional number
\* of minutes.
get_sla_target(work_type, priority) ==
    LET schema == DictGet(DictGet(ITSM_SCHEMA, work_type, EmptyDict),
                          Present("sla"), EmptyDict)
    IN  IF Truthy(priority) /\ priority[1] \in DOMAIN schema
        THEN Present(schema[priority[1]])
        ELSE IF "default" \in DOMAIN schema
             THEN Present(schema["default"])
             ELSE Absent

(***************************************************************************)
(* services/escalation.py                                                  *)
(***************************************************************************)
ESCALATION_MATRIX ==
    [priority_1 |-> [threshold |-> 60,  target |-> "team:incident_managers"],
     priority_2 |-> [threshold |-> 180, target |-> "team:service_desk"],
     priority_3 |-> [threshold |-> 360, target |-> "team:operations"]]

\* A float number of minutes: num / den.
Frac(n, d) == [num |-> n, den |-> d]

\* q > k for a fraction q and an integer k.
FracGT(q, k) == q.num > k * q.den

\* get_escalation_target comparing with >= instead of >.
get_escalation_target_ge(priority, work_type, elapsed_minutes) ==
    LET rule == DictGet(ESCALATION_MATRIX, priority, Absent)
    IN  IF rule # Absent /\ elapsed_minutes.num >= rule.threshold * elapsed_minutes.den
        THEN Present(rule.target)
        ELSE Absent

\* get_escalation_target with the priority_3 rule as the default rule of a
\* priority the matrix does not hold.
get_escalation_target_default(priority, work_type, elapsed_minutes) ==
    LET rule == DictGet(ESCALATION_MATRIX, priority, ESCALATION_MATRIX.priority_3)
    IN  IF rule # Absent /\ FracGT(elapsed_minutes, rule.threshold)
        THEN Present(rule.target)
        ELSE Absent

\* get_escalation_target giving the target only up to twice the threshold.
get_escalation_target_window(priority, work_type, elapsed_minutes) ==
    LET rule == DictGet(ESCALATION_MATRIX, priority, Absent)
    IN  IF /\ rule # Absent
           /\ FracGT(elapsed_minutes, rule.threshold)
           /\ ~FracGT(elapsed_minutes, 2 * rule.threshold)
        THEN Present(rule.target)
        ELSE Absent

\* get_escalation_target escalating incidents only.
get_escalation_target_incident(priority, work_type, elapsed_minutes) ==
    LET rule == DictGet(ESCALATION_MATRIX, priority, Absent)
    IN  IF /\ rule # Absent
           /\ work_type = Present("incident")
           /\ FracGT(elapsed_minutes, rule.threshold)
        THEN Present(rule.target)
        ELSE Absent

\* priority: optional string; elapsed_minutes: a fraction.  The result is an
\* optional target string.
get_escalation_target(priority, work_type, elapsed_minutes) ==
    LET rule == DictGet(ESCALATION_MATRIX, priority, Absent)
    IN  IF rule # Absent /\ FracGT(elapsed_minutes, rule.threshold)
        THEN Present(rule.target)
        ELSE Absent


(***************************************************************************)
(* Bounds and the inputs the requests are drawn from.                      *)
(***************************************************************************)
\* The clock readings, in seconds, at which requests arrive: 0, exactly 60
\* minutes later, and 60.5 minutes.
TimePoints == {0, 3600, 3630}

\* The table holds at most MaxItems work items.
MaxItems == 2

\* The primary keys of the work items, in the order uuid4 draws them.
Pks == 1..MaxItems

StatusInputs == {"new", "in_progress", "fulfilled"}

\* The bodies of the POST /workitems/ requests.
CreateBodies ==
    {[title |-> "Disk full", work_type |-> "incident", priority |-> "priority_1",
      status |-> Absent, sla_target_minutes |-> Absent],
     [title |-> "VPN down", work_type |-> "request", priority |-> "priority_4",
      status |-> Present("in_progress"), sla_target_minutes |-> Present(60)],
     [title |-> "Badge reader", work_type |-> "change", priority |-> "priority_2",
      status |-> Present("fulfilled"), sla_target_minutes |-> Present(30)]}

\* The bodies of the PATCH /workitems/<pk>/ requests: one field each.
PatchBodies == {[field |-> "status", value |-> s] : s \in StatusInputs}

(***************************************************************************)
(* models/workitems.py, models/mixins.py: the stored rows.                 *)
(***************************************************************************)
\* The defaults of WorkItem.status and WorkItem.sla_target_minutes.
DefaultStatus == "new"

DefaultSlaTargetMinutes == 60

\* A new WorkItem row from the validated request body: id is a fresh uuid,
\* created_at defaults to now and modified_at (auto_now) is set by save.
WorkItem(id, body, t) ==
    [id |-> id, title |-> body.title, work_type |-> body.work_type,
     status |-> IF body.status = Absent THEN DefaultStatus ELSE body.status[1],
     priority |-> body.priority,
     sla_target_minutes |-> IF body.sla_target_minutes = Absent
                            THEN Present(DefaultSlaTargetMinutes)
                            ELSE body.sla_target_minutes,
     created_at |-> Present(t), modified_at |-> Present(t)]

\* Model.save() of an existing row: auto_now refreshes modified_at.
save(wi, t) == [wi EXCEPT !.modified_at = Present(t)]

\* get_object(): the position of the row with primary key pk, 0 if none
\* (the request then ends 404).
Lookup(pk) == IF \E i \in 1..Len(rows) : rows[i].id = pk
              THEN CHOOSE i \in 1..Len(rows) : rows[i].id = pk
              ELSE 0

(***************************************************************************)
(* views/workitems.py: WorkItemViewSet                                     *)
(***************************************************************************)
\* POST /workitems/: ModelViewSet.create with WorkItemSerializer, which
\* stores every writable field as given.
create ==
    /\ Len(rows) < MaxItems
    /\ \E body \in CreateBodies :
          LET pk == Len(rows) + 1
          IN  /\ rows' = Append(rows, WorkItem(pk, body, now))
              /\ response' = [op |-> "create", code |-> 201]
    /\ UNCHANGED now

\* PATCH /workitems/<pk>/: ModelViewSet.partial_update; the serializer sets
\* the field of the request as given and saves.
partial_update ==
    /\ \E pk \in Pks, body \in PatchBodies :
          LET i == Lookup(pk)
          IN  IF i = 0
              THEN /\ response' = [op |-> "partial_update", code |-> 404]
                   /\ UNCHANGED rows
              ELSE /\ rows' = [rows EXCEPT ![i] = save([@ EXCEPT ![body.field] = body.value], now)]
                   /\ response' = [op |-> "partial_update", code |-> 200]
    /\ UNCHANGED now

\* update_status assigning and saving before it validates.
update_status_late ==
    /\ \E pk \in Pks, new_status \in {Absent} \cup {Present(s) : s \in StatusInputs} :
          LET i == Lookup(pk)
          IN  IF i = 0
              THEN /\ response' = [op |-> "update_status", code |-> 404, pk |-> pk,
                                   status |-> new_status]
                   /\ UNCHANGED rows
              ELSE /\ new_status # Absent
                   /\ rows' = [rows EXCEPT ![i] = save([@ EXCEPT !.status = new_status[1]], now)]
                   /\ response' = [op |-> "update_status",
                                   code |-> IF validate_status(Present(rows[i].work_type), new_status)
                                            THEN 200 ELSE 400,
                                   pk |-> pk, status |-> new_status]
    /\ UNCHANGED now

\* update_status refusing to change a closed work item.
update_status_terminal ==
    /\ \E pk \in Pks, new_status \in {Absent} \cup {Present(s) : s \in StatusInputs} :
          LET i == Lookup(pk)
          IN  IF i = 0
              THEN /\ response' = [op |-> "update_status", code |-> 404, pk |-> pk,
                                   status |-> new_status]
                   /\ UNCHANGED rows
              ELSE IF \/ ~validate_status(Present(rows[i].work_type), new_status)
                      \/ rows[i].status = "closed"
              THEN /\ response' = [op |-> "update_status", code |-> 400, pk |-> pk,
                                   status |-> new_status]
                   /\ UNCHANGED rows
              ELSE /\ rows' = [rows EXCEPT ![i] = save([@ EXCEPT !.status = new_status[1]], now)]
                   /\ response' = [op |-> "update_status", code |-> 200, pk |-> pk,
                                   status |-> new_status]
    /\ UNCHANGED now

\* POST /workitems/<pk>/update_status/ with request.data.get("status") =
\* new_status.
update_status ==
    /\ \E pk \in Pks, new_status \in {Absent} \cup {Present(s) : s \in StatusInputs} :
          LET i == Lookup(pk)
          IN  IF i = 0
              THEN /\ response' = [op |-> "update_status", code |-> 404, pk |-> pk,
                                   status |-> new_status]
                   /\ UNCHANGED rows
              ELSE IF ~validate_status(Present(rows[i].work_type), new_status)
              THEN /\ response' = [op |-> "update_status", code |-> 400, pk |-> pk,
                                   status |-> new_status]
                   /\ UNCHANGED rows
              ELSE /\ rows' = [rows EXCEPT ![i] = save([@ EXCEPT !.status = new_status[1]], now)]
                   /\ response' = [op |-> "update_status", code |-> 200, pk |-> pk,
                                   status |-> new_status]
    /\ UNCHANGED now

(***************************************************************************)
(* tasks/sla_checks.py, views/orchestration.py                             *)
(***************************************************************************)
SecondsPerMinute == 60

\* The filter without "in_progress".
OpenRows_new == SelectSeq(rows, LAMBDA wi : wi.status \in {"new"})

\* filter(status__in=["new", "in_progress"]): the open rows, in table order.
OpenRows == SelectSeq(rows, LAMBDA wi : wi.status \in {"new", "in_progress"})

\* The elapsed time in whole minutes (// 60).
elapsed_minutes_floor(wi, t) == Frac((t - wi.created_at[1]) \div SecondsPerMinute, 1)

\* (now() - wi.created_at).total_seconds() / 60 at clock reading t.
elapsed_minutes(wi, t) == Frac(t - wi.created_at[1], SecondsPerMinute)

\* An uncaught TypeError leaves the loop and the task without a result.
Raised == [raised |-> TRUE, alerts |-> <<>>]

RECURSIVE sweep_targeted(_, _, _, _)
\* The loop appending an alert only when an escalation target resolves.
sweep_targeted(wis, i, t, alerts) ==
    IF i > Len(wis) THEN [raised |-> FALSE, alerts |-> alerts]
    ELSE LET wi == wis[i]
             target == get_escalation_target(Present(wi.priority), Present(wi.work_type),
                                             elapsed_minutes(wi, t))
         IN  IF wi.created_at = Absent \/ wi.sla_target_minutes = Absent
             THEN Raised
             ELSE IF FracGT(elapsed_minutes(wi, t), wi.sla_target_minutes[1])
                     /\ target # Absent
             THEN sweep_targeted(wis, i + 1, t, Append(alerts,
                    [work_item |-> wi.id, title |-> wi.title,
                     escalation_target |-> target,
                     elapsed_minutes |-> elapsed_minutes(wi, t)]))
             ELSE sweep_targeted(wis, i + 1, t, alerts)

RECURSIVE sweep(_, _, _, _)
\* The loop of run_sla_checks over the rows wis from position i on at clock
\* reading t, with the alerts appended so far.  now() - None and
\* float > None raise TypeError.
sweep(wis, i, t, alerts) ==
    IF i > Len(wis) THEN [raised |-> FALSE, alerts |-> alerts]
    ELSE LET wi == wis[i]
         IN  IF wi.created_at = Absent \/ wi.sla_target_minutes = Absent
             THEN Raised
             ELSE IF FracGT(elapsed_minutes(wi, t), wi.sla_target_minutes[1])
             THEN sweep(wis, i + 1, t, Append(alerts,
                    [work_item |-> wi.id, title |-> wi.title,
                     escalation_target |->
                        get_escalation_target(Present(wi.priority), Present(wi.work_type),
                                              elapsed_minutes(wi, t)),
                     elapsed_minutes |-> elapsed_minutes(wi, t)]))
             ELSE sweep(wis, i + 1, t, alerts)

\* The request with the task saving every row it alerts.
run_sla_checks_marking ==
    /\ LET result == sweep(OpenRows, 1, now, <<>>)
           repeat == response.op = "run_sla_checks"
       IN  /\ response' = IF result.raised
                          THEN [op |-> "run_sla_checks", code |-> 500, at |-> now,
                                repeat |-> repeat]
                          ELSE [op |-> "run_sla_checks", code |-> 200, at |-> now,
                                repeat |-> repeat, alerts |-> result.alerts]
           /\ rows' = [i \in 1..Len(rows) |->
                          IF \E j \in 1..Len(result.alerts) :
                                 result.alerts[j].work_item = rows[i].id
                          THEN save(rows[i], now) ELSE rows[i]]
    /\ UNCHANGED now

\* POST /orchestration/run-sla-checks/: RunSLAChecksView.post runs the task
\* and answers with its alerts; an exception of the task ends the request
\* with a server error.  A sweep is shorter than the step of the clock, so
\* every now() of its loop reads the same value.  The model keeps with the
\* response the clock reading of the sweep (at) and whether the request
\* before it was a sweep too (repeat); no write lies between the two then.
run_sla_checks ==
    /\ LET result == sweep(OpenRows, 1, now, <<>>)
           repeat == response.op = "run_sla_checks"
       IN  response' = IF result.raised
                       THEN [op |-> "run_sla_checks", code |-> 500, at |-> now,
                             repeat |-> repeat]
                       ELSE [op |-> "run_sla_checks", code |-> 200, at |-> now,
                             repeat |-> repeat, alerts |-> result.alerts]
    /\ UNCHANGED <<rows, now>>

\* Time passes between requests.
Tick ==
    /\ \E t \in TimePoints : t > now /\ now' = t
    /\ UNCHANGED <<rows, response>>

Init ==
    /\ rows = <<>>
    /\ now = 0
    /\ response = [op |-> "none"]

Next ==
    \/ create
    \/ partial_update
    \/ update_status
    \/ run_sla_checks
    \/ Tick

Spec == Init /\ [][Next]_vars

(***************************************************************************)
(* The schema and matrix lookups called on their own: the arguments are    *)
(* drawn from bounded sets and the call and its result are recorded in     *)
(* response.                                                               *)
(***************************************************************************)
Opt(S) == {Absent} \cup {Present(v) : v \in S}

\* "change" is a work type the schema does not register.
WorkTypeArgs == Opt({"incident", "request", "problem", "change", ""})

StatusArgs ==
    Opt({"new", "in_progress", "resolved", "closed", "fulfilled", "analysis", "foo", ""})

PriorityArgs ==
    Opt({"priority_1", "priority_2", "priority_3", "priority_4", "priority_9",
         "standard", "default", ""})

\* Elapsed minutes as the sweep computes them (seconds / 60) around each
\* threshold of the matrix, and as whole numbers.
ElapsedArgs ==
    {Frac(sec, SecondsPerMinute) :
        sec \in {0, 3540, 3599, 3600, 3601, 3660, 10799, 10800, 10801, 21600, 21601, 6000000}}
    \cup {Frac(m, 1) : m \in {59, 60, 61, 180, 181, 360, 361}}

call_validate_status ==
    /\ \E work_type \in WorkTypeArgs, status \in StatusArgs :
          response' = [op |-> "validate_status", work_type |-> work_type,
                       status |-> status,
                       result |-> validate_status(work_type, status)]
    /\ UNCHANGED <<rows, now>>

call_get_sla_target ==
    /\ \E work_type \in WorkTypeArgs, priority \in PriorityArgs :
          response' = [op |-> "get_sla_target", work_type |-> work_type,
                       priority |-> priority,
                       result |-> get_sla_target(work_type, priority)]
    /\ UNCHANGED <<rows, now>>

call_get_escalation_target ==
    /\ \E priority \in PriorityArgs, work_type \in WorkTypeArgs,
          elapsed \in ElapsedArgs :
          response' = [op |-> "get_escalation_target", priority |-> priority,
                       work_type |-> work_type, elapsed_minutes |-> elapsed,
                       result |-> get_escalation_target(priority, work_type, elapsed)]
    /\ UNCHANGED <<rows, now>>

NextCalls ==
    \/ call_validate_status
    \/ call_get_sla_target
    \/ call_get_escalation_target

SpecCalls == Init /\ [][NextCalls]_vars

(***************************************************************************)
(* The sweep over a table as the storage may hand it over: rows of the     *)
(* work-item table whose created_at or sla_target_minutes is null.         *)
(***************************************************************************)
RawRows(pk) ==
    UNION {{[wi EXCEPT !.created_at = c, !.sla_target_minutes = m] :
               c \in {wi.created_at, Absent}, m \in {wi.sla_target_minutes, Absent}} :
           wi \in {WorkItem(pk, body, t) : body \in CreateBodies, t \in TimePoints}}

RawTables ==
    UNION {{tbl \in [1..n -> UNION {RawRows(pk) : pk \in Pks}] :
               \A i \in 1..n : tbl[i].id = i} : n \in 0..MaxItems}

InitRaw ==
    /\ rows \in RawTables
    /\ now \in TimePoints
    /\ \A i \in 1..Len(rows) : rows[i].modified_at[1] <= now
    /\ response = [op |-> "none"]

NextRaw ==
    \/ run_sla_checks
    \/ Tick

SpecRaw == InitRaw /\ [][NextRaw]_vars

(***************************************************************************)
(* tasks/sla_checks.py invoked by several triggers at once.  Each          *)
(* invocation has its own position in run_sla_checks and its own locals    *)
(* (the queryset result, the loop index, the alerts); response holds them. *)
(* The table is not written meanwhile, the clock may move at any point.    *)
(***************************************************************************)
\* The number of invocations in flight.
MaxJobs == 2

Jobs == 1..MaxJobs

\* An invocation that has not begun.
IdleJob == [pc |-> "idle", at |-> 0, workitems |-> <<>>, i |-> 0, alerts |-> <<>>]

\* The work-item tables of up to MaxItems rows created at 0.
JobTables ==
    UNION {{tbl \in [1..n -> {WorkItem(pk, body, 0) : pk \in Pks, body \in CreateBodies}] :
               \A i \in 1..n : tbl[i].id = i} : n \in 0..MaxItems}

InitJobs ==
    /\ rows \in JobTables
    /\ now \in TimePoints
    /\ response = [op |-> "jobs", jobs |-> [j \in Jobs |-> IdleJob]]

\* Lines 9-11: the invocation begins, the queryset is evaluated as the loop
\* is entered.  at keeps the clock reading of that moment.
job_start(j) ==
    /\ response.jobs[j].pc = "idle"
    /\ response' = [response EXCEPT !.jobs[j] =
           [pc |-> "loop", at |-> now, workitems |-> OpenRows, i |-> 1, alerts |-> <<>>]]
    /\ UNCHANGED <<rows, now>>

\* One turn of the loop that leaves out a work item for which another
\* invocation already holds an alert.
job_iterate_dedup(j) ==
    /\ response.jobs[j].pc = "loop"
    /\ response.jobs[j].i <= Len(response.jobs[j].workitems)
    /\ LET job == response.jobs[j]
           wi == job.workitems[job.i]
           seen == \E k \in Jobs \ {j} : \E a \in 1..Len(response.jobs[k].alerts) :
                       response.jobs[k].alerts[a].work_item = wi.id
           result == IF seen THEN [raised |-> FALSE, alerts |-> job.alerts]
                     ELSE sweep(<<wi>>, 1, now, job.alerts)
       IN  response' = [response EXCEPT !.jobs[j] =
               IF result.raised
               THEN [job EXCEPT !.pc = "raised"]
               ELSE [job EXCEPT !.i = @ + 1, !.alerts = result.alerts]]
    /\ UNCHANGED <<rows, now>>

\* Lines 11-21: one turn of the loop, for the row at position i of the
\* queryset result, with the clock reading of this moment.
job_iterate(j) ==
    /\ response.jobs[j].pc = "loop"
    /\ response.jobs[j].i <= Len(response.jobs[j].workitems)
    /\ LET job == response.jobs[j]
           result == sweep(<<job.workitems[job.i]>>, 1, now, job.alerts)
       IN  response' = [response EXCEPT !.jobs[j] =
               IF result.raised
               THEN [job EXCEPT !.pc = "raised"]
               ELSE [job EXCEPT !.i = @ + 1, !.alerts = result.alerts]]
    /\ UNCHANGED <<rows, now>>

\* Line 23: the loop is over, the alerts are returned.
job_return(j) ==
    /\ response.jobs[j].pc = "loop"
    /\ response.jobs[j].i > Len(response.jobs[j].workitems)
    /\ response' = [response EXCEPT !.jobs[j].pc = "done"]
    /\ UNCHANGED <<rows, now>>

NextJobs ==
    \/ \E j \in Jobs : job_start(j)
    \/ \E j \in Jobs : job_iterate(j)
    \/ \E j \in Jobs : job_return(j)
    \/ Tick

SpecJobs == InitJobs /\ [][NextJobs]_vars

(***************************************************************************)
(* One work item over a long time: the status updates and the sweeps of    *)
(* the SLA check job with the clock moving past every threshold of the     *)
(* escalation matrix.                                                      *)
(***************************************************************************)
\* The clock readings, in seconds: 0 and 60.5, 121, 181 and 361 minutes.
SweepTimes == {0, 3630, 7260, 10860, 21660}

\* The work item as it was created at 0: an incident or a request of any
\* priority with one of the SLA targets of the schema, in any status of its
\* work type.  A work item created closed is the one titled "Old outage".
LifecycleRows ==
    {WorkItem(1, [title |-> IF s = "closed" THEN "Old outage" ELSE "Disk full",
                   work_type |-> w, priority |-> p, status |-> Present(s),
                   sla_target_minutes |-> Present(m)], 0) :
        w \in {"incident", "request"},
        p \in {"priority_1", "priority_2", "priority_3", "priority_4"},
        m \in {60, 120, 240},
        s \in {"new", "in_progress", "resolved", "fulfilled", "closed"}}

InitLifecycle ==
    /\ rows \in {<<wi>> : wi \in {r \in LifecycleRows :
                                     validate_status(Present(r.work_type),
                                                     Present(r.status))}}
    /\ now = 0
    /\ response = [op |-> "none"]

\* Time passes between requests.
Elapse ==
    /\ \E t \in SweepTimes : t > now /\ now' = t
    /\ UNCHANGED <<rows, response>>

NextLifecycle ==
    \/ update_status
    \/ run_sla_checks
    \/ Elapse

SpecLifecycle == InitLifecycle /\ [][NextLifecycle]_vars

(***************************************************************************)
(* services/scoring.py: calculate_smart_score.  The work-item view is a    *)
(* dict; view.get(key) is None for a missing key and for a None value      *)
(* alike, so the view is a record of optional values.  A nested dict       *)
(* (business_service, automation, assigned_to) is a function on the keys   *)
(* it holds, with optional values; {} is the function on no key.  A        *)
(* revenue figure is a fraction.                                           *)
(***************************************************************************)
priority_map ==
    [priority_1 |-> 400, priority_2 |-> 300, priority_3 |-> 200, priority_4 |-> 100]

\* q <= k for a fraction q with a positive denominator and an integer k.
FracLE(q, k) == q.num <= k * q.den

\* int(x) of a float: truncation toward zero.
int(q) == IF q.num >= 0 THEN q.num \div q.den ELSE -((-q.num) \div q.den)

min(a, b) == IF a <= b THEN a ELSE b

\* Truthiness of a dict: None and {} are falsy.
TruthyDict(d) == d # Absent /\ DOMAIN d[1] # {}

\* 1. Priority Weight
priority_weight(workitem) == DictGet(priority_map, workitem.priority, 0)

\* The SLA urgency always measured against the clock, modified_at ignored.
sla_urgency_clock(workitem, clock) ==
    LET sla_target == workitem.sla_target_minutes
        created_at == workitem.created_at
    IN  IF sla_target # Absent /\ sla_target[1] # 0 /\ created_at # Absent
        THEN LET elapsed == Frac(clock - created_at[1], SecondsPerMinute)
                 remaining == Frac(sla_target[1] * elapsed.den - elapsed.num, elapsed.den)
             IN  IF FracLE(remaining, 0) THEN 300
                 ELSE IF FracLE(remaining, 15) THEN 250
                 ELSE IF FracLE(remaining, 30) THEN 200
                 ELSE IF FracLE(remaining, 60) THEN 100
                 ELSE 0
        ELSE 0

\* 2. SLA Urgency.  clock is the reading of datetime.now() at the call; an
\* sla_target of 0 is falsy, a datetime never is.
sla_urgency(workitem, clock) ==
    LET sla_target == workitem.sla_target_minutes
        created_at == workitem.created_at
        modified_at == IF workitem.modified_at # Absent
                       THEN workitem.modified_at[1] ELSE clock
    IN  IF sla_target # Absent /\ sla_target[1] # 0 /\ created_at # Absent
        THEN LET elapsed == Frac(modified_at - created_at[1], SecondsPerMinute)
                 remaining == Frac(sla_target[1] * elapsed.den - elapsed.num, elapsed.den)
             IN  IF FracLE(remaining, 0) THEN 300
                 ELSE IF FracLE(remaining, 15) THEN 250
                 ELSE IF FracLE(remaining, 30) THEN 200
                 ELSE IF FracLE(remaining, 60) THEN 100
                 ELSE 0
        ELSE 0

\* The business impact without the cap.
business_impact_uncapped(workitem) ==
    LET service == workitem.business_service
        revenue == IF TruthyDict(service)
                   THEN DictGet(service[1], Present("revenue_impact_per_hour"), Absent)
                   ELSE Absent
    IN  IF revenue # Absent /\ revenue[1].num # 0
        THEN int(Frac(revenue[1].num, revenue[1].den * 100000)) * 50
        ELSE 0

\* 3. Business Impact.  A revenue of 0 is falsy.
business_impact(workitem) ==
    LET service == workitem.business_service
        revenue == IF TruthyDict(service)
                   THEN DictGet(service[1], Present("revenue_impact_per_hour"), Absent)
                   ELSE Absent
    IN  IF revenue # Absent /\ revenue[1].num # 0
        THEN min(int(Frac(revenue[1].num, revenue[1].den * 100000)) * 50, 200)
        ELSE 0

\* The automation bonus with the success rate compared by >=.
automation_eligibility_ge(workitem) ==
    LET automation == workitem.automation
    IN  IF TruthyDict(automation)
        THEN IF /\ DictGet(automation[1], Present("success_rate"), Present(0))[1] >= 80
                /\ DictGet(automation[1], Present("auto_executable"), Present(FALSE))
                      = Present(TRUE)
             THEN 100
             ELSE IF DictGet(automation[1], Present("eligible"), Absent) = Present(TRUE)
                  THEN 50 ELSE 0
        ELSE 0

\* 4. Automation Eligibility.  success_rate is a number when the key is
\* there; the flags are booleans, None or missing.
automation_eligibility(workitem) ==
    LET automation == workitem.automation
    IN  IF TruthyDict(automation)
        THEN IF /\ DictGet(automation[1], Present("success_rate"), Present(0))[1] > 80
                /\ DictGet(automation[1], Present("auto_executable"), Present(FALSE))
                      = Present(TRUE)
             THEN 100
             ELSE IF DictGet(automation[1], Present("eligible"), Absent) = Present(TRUE)
                  THEN 50 ELSE 0
        ELSE 0

\* The assignment bonus without the test that current_user_id is truthy.
assignment_context_anyid(workitem, current_user_id) ==
    LET assigned_to == workitem.assigned_to
    IN  IF TruthyDict(assigned_to)
        THEN IF DictGet(assigned_to[1], Present("id"), Absent) = current_user_id THEN 75
             ELSE IF Truthy(DictGet(assigned_to[1], Present("team"), Absent)) THEN 50
             ELSE 0
        ELSE 0

\* The assignment bonus adding the team bonus to the bonus of the current user.
assignment_context_both(workitem, current_user_id) ==
    LET assigned_to == workitem.assigned_to
        team == IF Truthy(DictGet(assigned_to[1], Present("team"), Absent)) THEN 50 ELSE 0
    IN  IF TruthyDict(assigned_to)
        THEN IF /\ Truthy(current_user_id)
                /\ DictGet(assigned_to[1], Present("id"), Absent) = current_user_id
             THEN 75 + team
             ELSE team
        ELSE 0

\* 5. Assignment Context.  Ids and team names are strings.
assignment_context(workitem, current_user_id) ==
    LET assigned_to == workitem.assigned_to
    IN  IF TruthyDict(assigned_to)
        THEN IF /\ Truthy(current_user_id)
                /\ DictGet(assigned_to[1], Present("id"), Absent) = current_user_id
             THEN 75
             ELSE IF Truthy(DictGet(assigned_to[1], Present("team"), Absent)) THEN 50
             ELSE 0
        ELSE 0

\* The score clamped to 1000.
calculate_smart_score_clamped(workitem, current_user_id, clock) ==
    min(priority_weight(workitem) + sla_urgency(workitem, clock)
        + business_impact(workitem) + automation_eligibility(workitem)
        + assignment_context(workitem, current_user_id), 1000)

\* score = 0, then the five score += ... in the order of the code.
calculate_smart_score(workitem, current_user_id, clock) ==
    LET score0 == 0
        score1 == score0 + priority_weight(workitem)
        score2 == score1 + sla_urgency(workitem, clock)
        score3 == score2 + business_impact(workitem)
        score4 == score3 + automation_eligibility(workitem)
        score5 == score4 + assignment_context(workitem, current_user_id)
    IN  score5

(***************************************************************************)
(* calculate_smart_score evaluated on a view.  The views vary the inputs of *)
(* one component over their whole range while each other component takes   *)
(* one of two values (nothing, or an input that scores).                   *)
(***************************************************************************)
PriorityInputs ==
    Opt({"priority_1", "priority_2", "priority_3", "priority_4", "priority_9"})

\* created_at at 0; with a target of 60 or 120 minutes the values of
\* modified_at put the remaining minutes on, next to and between the
\* thresholds 0, 15, 30 and 60.
SlaInputs ==
    [sla_target_minutes : Opt({0, 60, 120}),
     created_at : Opt({0}),
     modified_at : Opt({0, 1770, 1800, 2670, 2700, 2730, 3570, 3600, 3630})]

RevenueInputs ==
    {Frac(0, 1), Frac(199999, 2), Frac(100000, 1), Frac(250000, 1),
     Frac(799999, 2), Frac(400000, 1), Frac(1000000, 1),
     Frac(-50000, 1), Frac(-150000, 1)}

ServiceInputs ==
    {Absent, Present(EmptyDict), Present([name |-> Present("Payments")])}
    \cup {Present([revenue_impact_per_hour |-> r]) : r \in Opt(RevenueInputs)}

SuccessRateInputs == {Present(r) : r \in {0, 80, 81, 100}}

FlagInputs == Opt({TRUE, FALSE})

AutomationInputs ==
    {Absent, Present(EmptyDict)}
    \cup {Present([success_rate |-> r]) : r \in SuccessRateInputs}
    \cup {Present([eligible |-> e]) : e \in FlagInputs}
    \cup {Present([success_rate |-> r, auto_executable |-> x]) :
             r \in SuccessRateInputs, x \in FlagInputs}
    \cup {Present([auto_executable |-> x, eligible |-> e]) :
             x \in FlagInputs, e \in FlagInputs}
    \cup {Present([success_rate |-> r, auto_executable |-> x, eligible |-> e]) :
             r \in SuccessRateInputs, x \in FlagInputs, e \in FlagInputs}

UserIdInputs == Opt({"", "u1", "u2"})

AssigneeInputs ==
    {Absent, Present(EmptyDict)}
    \cup {Present([id |-> i]) : i \in Opt({"", "u1"})}
    \cup {Present([team |-> t]) : t \in Opt({"", "ops"})}
    \cup {Present([id |-> i, team |-> t]) : i \in Opt({"", "u1"}), t \in Opt({"", "ops"})}

\* The two values a component takes while another one is varied.
PriorityContext == {Absent, Present("priority_1")}

SlaContext ==
    {[sla_target_minutes |-> Absent, created_at |-> Absent, modified_at |-> Absent],
     [sla_target_minutes |-> Present(60), created_at |-> Present(0),
      modified_at |-> Present(3600)]}

ServiceContext ==
    {Absent, Present([revenue_impact_per_hour |-> Present(Frac(1000000, 1))])}

AutomationContext ==
    {Absent, Present([success_rate |-> Present(100), auto_executable |-> Present(TRUE),
                      eligible |-> Present(TRUE)])}

AssignmentContext ==
    {[assigned_to |-> Absent, current_user_id |-> Absent],
     [assigned_to |-> Present([id |-> Present("u1"), team |-> Present("ops")]),
      current_user_id |-> Present("u1")]}

\* A call: the view and the current_user_id.
ScoreCall(p, s, b, a, g) ==
    [workitem |-> [priority |-> p, sla_target_minutes |-> s.sla_target_minutes,
                   created_at |-> s.created_at, modified_at |-> s.modified_at,
                   business_service |-> b, automation |-> a,
                   assigned_to |-> g.assigned_to],
     current_user_id |-> g.current_user_id]

ScoreCalls ==
    {ScoreCall(p, s, b, a, g) :
        p \in PriorityInputs, s \in SlaContext, b \in ServiceContext,
        a \in AutomationContext, g \in AssignmentContext}
    \cup {ScoreCall(p, s, b, a, g) :
        p \in PriorityContext, s \in SlaInputs, b \in ServiceContext,
        a \in AutomationContext, g \in AssignmentContext}
    \cup {ScoreCall(p, s, b, a, g) :
        p \in PriorityContext, s \in SlaContext, b \in ServiceInputs,
        a \in AutomationContext, g \in AssignmentContext}
    \cup {ScoreCall(p, s, b, a, g) :
        p \in PriorityContext, s \in SlaContext, b \in ServiceContext,
        a \in AutomationInputs, g \in AssignmentContext}
    \cup {ScoreCall(p, s, b, a, g) :
        p \in PriorityContext, s \in SlaContext, b \in ServiceContext,
        a \in AutomationContext,
        g \in [assigned_to : AssigneeInputs, current_user_id : UserIdInputs]}

\* The call to evaluate is on the table from the start: rows holds the view
\* and the current_user_id it is scored for.
InitScore ==
    /\ rows \in {<<c>> : c \in ScoreCalls}
    /\ now = 0
    /\ response = [op |-> "none"]

\* One evaluation at the clock reading now.  previous is the outcome of the
\* evaluation before it, which had the same view and the same
\* current_user_id.
call_calculate_smart_score ==
    /\ response' =
           [op |-> "calculate_smart_score", workitem |-> rows[1].workitem,
            current_user_id |-> rows[1].current_user_id, at |-> now,
            result |-> calculate_smart_score(rows[1].workitem,
                                             rows[1].current_user_id, now),
            previous |->
                IF response.op = "calculate_smart_score"
                THEN Present([at |-> response.at, result |-> response.result])
                ELSE Absent]
    /\ UNCHANGED <<rows, now>>

NextScore ==
    \/ call_calculate_smart_score
    \/ Tick

SpecScore == InitScore /\ [][NextScore]_vars

(***************************************************************************)
(* services/automation_engine.py: is_work_item_eligible_for_automation.    *)
(* A string that is searched is a sequence of characters; a rule is the    *)
(* sequence of its trigger conditions in the order the queryset yields     *)
(* them; work_item.asset is an optional record.                            *)
(***************************************************************************)
\* The lower-case letter of each upper-case letter of the alphabet in use.
LowerCase == [A |-> "a", B |-> "b", D |-> "d", X |-> "x"]

\* str.lower(): every upper-case letter replaced, the rest kept.
lower(s) ==
    [i \in 1..Len(s) |-> IF s[i] \in DOMAIN LowerCase THEN LowerCase[s[i]] ELSE s[i]]

\* kw in text for strings: kw is a run of consecutive characters of text
\* (the empty kw is in every text).
IsSubstring(kw, text) ==
    \E i \in 0..(Len(text) - Len(kw)) : SubSeq(text, i + 1, i + Len(kw)) = kw

\* The keyword test with the keyword taken as it is written.
keywords_match_cased(work_item, keywords) ==
    \E j \in 1..Len(keywords) :
        IsSubstring(keywords[j], lower(work_item.title) \o lower(work_item.description))

\* any(kw.lower() in (title.lower() + description.lower()) for kw in keywords)
keywords_match(work_item, keywords) ==
    \E j \in 1..Len(keywords) :
        IsSubstring(lower(keywords[j]),
                    lower(work_item.title) \o lower(work_item.description))

\* The tests of one condition with an item without asset passing the
\* asset_types test.
condition_holds_noasset(work_item, cond) ==
    IF Len(cond.work_types) > 0 /\ ~InList(work_item.work_type, cond.work_types)
    THEN FALSE
    ELSE IF /\ Len(cond.asset_types) > 0
            /\ work_item.asset # Absent
            /\ ~InList(work_item.asset[1].asset_type, cond.asset_types)
    THEN FALSE
    ELSE IF Len(cond.keywords) > 0 /\ ~keywords_match(work_item, cond.keywords)
    THEN FALSE
    ELSE TRUE

\* The body of the loop: FALSE where it returns False, TRUE where it goes on
\* to the next condition.
condition_holds(work_item, cond) ==
    IF Len(cond.work_types) > 0 /\ ~InList(work_item.work_type, cond.work_types)
    THEN FALSE
    ELSE IF /\ Len(cond.asset_types) > 0
            /\ \/ work_item.asset = Absent
               \/ ~InList(work_item.asset[1].asset_type, cond.asset_types)
    THEN FALSE
    ELSE IF Len(cond.keywords) > 0 /\ ~keywords_match(work_item, cond.keywords)
    THEN FALSE
    ELSE TRUE

\* The loop from the i-th condition on.
RECURSIVE conditions_from(_, _, _)

conditions_from(work_item, conds, i) ==
    IF i > Len(conds) THEN TRUE
    ELSE IF ~condition_holds(work_item, conds[i]) THEN FALSE
    ELSE conditions_from(work_item, conds, i + 1)

\* The function with a rule without conditions making no item eligible.
is_work_item_eligible_for_automation_some(work_item, rule) ==
    /\ Len(rule.trigger_conditions) > 0
    /\ conditions_from(work_item, rule.trigger_conditions, 1)

is_work_item_eligible_for_automation(work_item, rule) ==
    conditions_from(work_item, rule.trigger_conditions, 1)

\* A rule has at most MaxConditions trigger conditions.
MaxConditions == 2

\* "Db" and "a".
TitleInputs == {<<"D", "b">>, <<"a">>}

\* "Bx" and "dB".
DescriptionInputs == {<<"B", "x">>, <<"d", "B">>}

\* No keyword, ["bB"] and ["xd", "AB"].
KeywordInputs ==
    {<<>>, << <<"b", "B">> >>, << <<"x", "d">>, <<"A", "B">> >>}

ConditionInputs ==
    [work_types : {<<>>, <<"incident">>, <<"request", "change">>},
     asset_types : {<<>>, <<"server">>},
     keywords : KeywordInputs]

RuleInputs ==
    {[trigger_conditions |-> conds] :
        conds \in UNION {[1..n -> ConditionInputs] : n \in 0..MaxConditions}}

EligibilityItems ==
    [work_type : {"incident", "change"},
     asset : Opt({[asset_type |-> "server"], [asset_type |-> "laptop"]}),
     title : TitleInputs,
     description : DescriptionInputs]

\* The work item and the rule of the call are on the table from the start.
InitEligibility ==
    /\ rows \in {<<[work_item |-> wi, rule |-> rule]>> :
                    wi \in EligibilityItems, rule \in RuleInputs}
    /\ now = 0
    /\ response = [op |-> "none"]

call_is_work_item_eligible_for_automation ==
    /\ response' =
           [op |-> "is_work_item_eligible_for_automation",
            work_item |-> rows[1].work_item, rule |-> rows[1].rule,
            result |-> is_work_item_eligible_for_automation(rows[1].work_item,
                                                            rows[1].rule)]
    /\ UNCHANGED <<rows, now>>

NextEligibility == call_is_work_item_eligible_for_automation

SpecEligibility == InitEligibility /\ [][NextEligibility]_vars

(***************************************************************************)
(* services/automation_engine.py: run_execution_steps.  The execution      *)
(* steps of a rule are the rows of a table; order_by("order") yields them  *)
(* sorted by their order field, steps of equal order in an order the       *)
(* database is free to choose.                                             *)
(***************************************************************************)
\* A rule has at most MaxSteps execution steps.
MaxSteps == 3

\* The arrangements of 1..n.
Arrangements(n) == {p \in [1..n -> 1..n] : \A k, l \in 1..n : k # l => p[k] # p[l]}

\* The queryset in table order.
order_by_table(steps) == {steps}

\* rule.execution_steps.order_by("order"): the sequences the query may
\* yield.
order_by(steps) ==
    {[k \in 1..Len(steps) |-> steps[p[k]]] :
        p \in {q \in Arrangements(Len(steps)) :
                  \A k, l \in 1..Len(steps) :
                      k < l => steps[q[k]].order <= steps[q[l]].order}}

\* The lists the call may return: the loop over the steps as the query
\* yields them.
run_execution_steps(rule, work_item) ==
    {[k \in 1..Len(ordered) |->
         [action |-> ordered[k].action, params |-> ordered[k].params,
          status |-> "success"]] :
        ordered \in order_by(rule.execution_steps)}

StepInputs ==
    [order : 1..3, action : {"restart", "notify"},
     params : {EmptyDict, [service |-> "web"]}]

StepTables == UNION {[1..n -> StepInputs] : n \in 0..MaxSteps}

\* The rule and the work item of the call are on the table from the start.
InitSteps ==
    /\ rows \in {<<[rule |-> [execution_steps |-> steps], work_item |-> wi]>> :
                    steps \in StepTables,
                    wi \in {WorkItem(1, body, 0) : body \in CreateBodies}}
    /\ now = 0
    /\ response = [op |-> "none"]

\* A call; work_item is the work item as the call leaves it.
call_run_execution_steps ==
    /\ \E results \in run_execution_steps(rows[1].rule, rows[1].work_item) :
          response' = [op |-> "run_execution_steps", results |-> results,
                       work_item |-> rows[1].work_item]
    /\ UNCHANGED <<rows, now>>

NextSteps == call_run_execution_steps

SpecSteps == InitSteps /\ [][NextSteps]_vars

(***************************************************************************)
(* services/impact.py: calculate_business_impact.  The business service of *)
(* the work item is an optional record; duration_minutes is an optional    *)
(* number and the revenue loss a fraction.                                 *)
(***************************************************************************)
\* The result when the function raises.
ImpactRaised == [raised |-> TRUE, result |-> Absent]

\* The function answering a downtime of 0 when there is no service.
calculate_business_impact_zero(work_item, duration_minutes) ==
    LET service == work_item.business_service
    IN  IF service = Absent
        THEN [raised |-> FALSE,
              result |-> Present([downtime_minutes |-> Present(0),
                                  revenue_loss |-> Frac(0, 1)])]
        ELSE LET rate == service[1].revenue_impact_per_hour
                 hourly_loss == IF rate # Absent /\ rate[1].num # 0
                                THEN rate[1] ELSE Frac(0, 1)
             IN  IF duration_minutes = Absent THEN ImpactRaised
                 ELSE [raised |-> FALSE,
                       result |-> Present(
                           [downtime_minutes |-> duration_minutes,
                            revenue_loss |-> Frac(duration_minutes[1] * hourly_loss.num,
                                                  60 * hourly_loss.den)])]

\* duration_minutes / 60.0 raises a TypeError when duration_minutes is None.
calculate_business_impact(work_item, duration_minutes) ==
    LET service == work_item.business_service
    IN  IF service = Absent
        THEN [raised |-> FALSE,
              result |-> Present([downtime_minutes |-> duration_minutes,
                                  revenue_loss |-> Frac(0, 1)])]
        ELSE LET rate == service[1].revenue_impact_per_hour
                 hourly_loss == IF rate # Absent /\ rate[1].num # 0
                                THEN rate[1] ELSE Frac(0, 1)
             IN  IF duration_minutes = Absent THEN ImpactRaised
                 ELSE [raised |-> FALSE,
                       result |-> Present(
                           [downtime_minutes |-> duration_minutes,
                            revenue_loss |-> Frac(duration_minutes[1] * hourly_loss.num,
                                                  60 * hourly_loss.den)])]

ImpactRates == Opt({Frac(0, 1), Frac(201, 2), Frac(6000, 1), Frac(120000, 1)})

ImpactItems ==
    [business_service : {Absent} \cup {Present([revenue_impact_per_hour |-> r]) :
                                          r \in ImpactRates}]

DurationInputs == Opt({0, 1, 15, 30, 45, 60, 90, 120, 1440, -30})

\* The work item and the duration of the call are on the table from the
\* start.
InitImpact ==
    /\ rows \in {<<[work_item |-> wi, duration_minutes |-> d]>> :
                    wi \in ImpactItems, d \in DurationInputs}
    /\ now = 0
    /\ response = [op |-> "none"]

call_calculate_business_impact ==
    /\ LET out == calculate_business_impact(rows[1].work_item, rows[1].duration_minutes)
       IN  response' =
               [op |-> "calculate_business_impact", work_item |-> rows[1].work_item,
                duration_minutes |-> rows[1].duration_minutes,
                raised |-> out.raised, result |-> out.result]
    /\ UNCHANGED <<rows, now>>

NextImpact == call_calculate_business_impact

SpecImpact == InitImpact /\ [][NextImpact]_vars

(***************************************************************************)
(* tasks/compliance_checks.py: run_compliance_checks, called by            *)
(* RunComplianceChecksView.post.  rows holds the certificates of           *)
(* models/assets.py, which no endpoint writes; dates are day numbers.      *)
(***************************************************************************)
MaxCertificates == 2

SecondsPerDay == 86400

\* now().date() for the clock reading t.
date(t) == t \div SecondsPerDay

\* The clock readings: noon of day 0, midnight and noon of day 1, noon of
\* day 2.
ComplianceTimes == {43200, 86400, 129600, 216000}

\* AssetComplianceCertificate rows as they were stored at clock reading 0.
CertificateInputs ==
    [asset : {1, 2}, certificate_type : {"ISO27001"},
     expiry_date : {0, 1, 2}, status : {"valid", "expired", "revoked"},
     created_at : {Present(0)}, modified_at : {Present(0)}]
    \cup [asset : {1}, certificate_type : {"SOC2"},
          expiry_date : {0, 1, 2}, status : {"valid", "expired", "revoked"},
          created_at : {Present(0)}, modified_at : {Present(0)}]

CertificateTables == UNION {[1..n -> CertificateInputs] : n \in 0..MaxCertificates}

InitCompliance ==
    /\ rows \in CertificateTables
    /\ now \in ComplianceTimes
    /\ response = [op |-> "none"]

\* filter(expiry_date__lt=today, status="valid"): the positions of the rows
\* the query selects.
expired(today) ==
    {i \in 1..Len(rows) : rows[i].expiry_date < today /\ rows[i].status = "valid"}

\* The job selecting the certificates that expire today as well.
run_compliance_checks_lte ==
    /\ LET today == date(now)
           selected == {i \in 1..Len(rows) :
                           rows[i].expiry_date <= today /\ rows[i].status = "valid"}
       IN  /\ rows' = [i \in 1..Len(rows) |->
                          IF i \in selected
                          THEN save([rows[i] EXCEPT !.status = "expired"], now)
                          ELSE rows[i]]
           /\ \E cert \in [1..Cardinality(selected) -> selected] :
                 /\ \A k, l \in DOMAIN cert : k # l => cert[k] # cert[l]
                 /\ response' = [op |-> "run_compliance_checks", code |-> 200, at |-> now,
                                 expired |-> [k \in DOMAIN cert |->
                                     [asset |-> rows[cert[k]].asset,
                                      certificate |-> rows[cert[k]].certificate_type]]]
    /\ UNCHANGED now

\* POST on RunComplianceChecksView: the whole job.  The query has no
\* order_by, so the selected rows come in an order the database chooses;
\* each one is set to expired and saved, and its alert appended.
run_compliance_checks ==
    /\ LET today == date(now)
           selected == expired(today)
       IN  /\ rows' = [i \in 1..Len(rows) |->
                          IF i \in selected
                          THEN save([rows[i] EXCEPT !.status = "expired"], now)
                          ELSE rows[i]]
           /\ \E cert \in [1..Cardinality(selected) -> selected] :
                 /\ \A k, l \in DOMAIN cert : k # l => cert[k] # cert[l]
                 /\ response' = [op |-> "run_compliance_checks", code |-> 200, at |-> now,
                                 expired |-> [k \in DOMAIN cert |->
                                     [asset |-> rows[cert[k]].asset,
                                      certificate |-> rows[cert[k]].certificate_type]]]
    /\ UNCHANGED now

\* Time passes between runs.
Advance ==
    /\ \E t \in ComplianceTimes : t > now /\ now' = t
    /\ UNCHANGED <<rows, response>>

NextCompliance ==
    \/ run_compliance_checks
    \/ Advance

SpecCompliance == InitCompliance /\ [][NextCompliance]_vars

(***************************************************************************)
(* The properties.                                                         *)
(***************************************************************************)
\* The status set the schema table of the specification registers for a
\* work type; empty for every other work type.
RegisteredStatuses(work_type) ==
    CASE work_type = Present("incident") -> {"new", "in_progress", "resolved", "closed"}
      [] work_type = Present("request")  -> {"new", "in_progress", "fulfilled", "closed"}
      [] work_type = Present("problem")  -> {"new", "analysis", "resolved", "closed"}
      [] OTHER -> {}

\* C1: in every reachable state the stored status of every work item is a
\* member of the status set registered for its work_type.
C1_StatusInRegisteredSet ==
    \A i \in 1..Len(rows) :
        rows[i].status \in RegisteredStatuses(Present(rows[i].work_type))

\* C2: an update_status request (the step that leaves its response, the
\* clock standing still) for a stored work item with a status that is not
\* registered for the item's work_type (no status at all included)
\* ends 400 and leaves the table as it was; with a registered status it ends
\* 200, the item's status is the requested one and no other row changes.
C2_UpdateStatusRejectsOrApplies ==
    [][(response'.op = "update_status" /\ now' = now) =>
        LET pk == response'.pk
            new_status == response'.status
            i == Lookup(pk)
        IN  i # 0 =>
              IF new_status # Absent
                 /\ new_status[1] \in RegisteredStatuses(Present(rows[i].work_type))
              THEN /\ response'.code = 200
                   /\ Len(rows') = Len(rows)
                   /\ rows'[i].status = new_status[1]
                   /\ \A k \in 1..Len(rows) : k # i => rows'[k] = rows[k]
              ELSE /\ response'.code = 400
                   /\ rows' = rows]_vars

\* C2 witness: a request for a stored item was rejected.
C2_Witness ==
    /\ response.op = "update_status"
    /\ response.code = 400
    /\ response.status # Absent
    /\ Lookup(response.pk) # 0

\* C3: validate_status returns true exactly when the status is in the list
\* registered for the work type, and false for every status of a work type
\* the schema does not hold.
C3_ValidateStatusIffRegistered ==
    response.op = "validate_status" =>
        (response.result <=>
            (/\ response.status # Absent
             /\ response.status[1] \in RegisteredStatuses(response.work_type)))

\* C3 witness: a status registered for one work type only was accepted for
\* it.
C3_Witness ==
    /\ response.op = "validate_status"
    /\ response.work_type = Present("request")
    /\ response.status = Present("fulfilled")
    /\ response.result

\* A work item is in breach at clock reading t: it is open and more than
\* sla_target_minutes have passed since its creation.
Breached(wi, t) ==
    /\ wi.status \in {"new", "in_progress"}
    /\ t - wi.created_at[1] > wi.sla_target_minutes[1] * 60

AlertsFor(alerts, id) == {j \in 1..Len(alerts) : alerts[j].work_item = id}

\* C4: the sweep returns exactly one alert for each work item in breach at
\* the time of the sweep and none for any other; the alert carries the
\* item's id and title, the minutes elapsed since its creation and the
\* escalation target of its priority, work type and elapsed minutes.
C4_OneAlertPerBreachedItem ==
    response.op = "run_sla_checks" =>
        /\ response.code = 200
        /\ \A i \in 1..Len(rows) :
              Cardinality(AlertsFor(response.alerts, rows[i].id))
                 = IF Breached(rows[i], response.at) THEN 1 ELSE 0
        /\ \A j \in 1..Len(response.alerts) :
              LET alert == response.alerts[j]
              IN  \E i \in 1..Len(rows) :
                    /\ alert.work_item = rows[i].id
                    /\ alert.title = rows[i].title
                    /\ alert.elapsed_minutes.num * 60
                         = (response.at - rows[i].created_at[1]) * alert.elapsed_minutes.den
                    /\ alert.escalation_target
                         = get_escalation_target(Present(rows[i].priority),
                                                 Present(rows[i].work_type),
                                                 alert.elapsed_minutes)

\* C4 witness: a sweep over two items alerted one with a target and left
\* out an open item whose time is not up.
C4_Witness ==
    /\ response.op = "run_sla_checks"
    /\ response.code = 200
    /\ Len(rows) = 2
    /\ Len(response.alerts) = 1
    /\ response.alerts[1].escalation_target # Absent
    /\ \E i \in 1..Len(rows) :
          /\ rows[i].status \in {"new", "in_progress"}
          /\ ~Breached(rows[i], response.at)

\* A row the sweep can compute with.
WellFormed(wi) == wi.created_at # Absent /\ wi.sla_target_minutes # Absent

C6_SecondSweepIdentical ==
    [][(response.op = "run_sla_checks" /\ response'.op = "run_sla_checks" /\ now' = now)
          => response'.alerts = response.alerts]_vars

\* The seconds that a fraction of minutes stands for.
Seconds(q) == (q.num * 60) \div q.den

\* C6 amended: a sweep that follows a sweep with no write in between returns
\* the same list when the clock reads the same; otherwise its list holds, in
\* the same order, an alert for every item of the first list, with the same
\* work_item and title, the elapsed minutes grown by the time between the
\* sweeps, and the same target where the first alert had one.
C6_SecondSweepExtends ==
    [][(response.op = "run_sla_checks" /\ response'.op = "run_sla_checks" /\ now' = now) =>
         LET a == response.alerts
             b == response'.alerts
             d == response'.at - response.at
             At(j) == CHOOSE k \in 1..Len(b) : b[k].work_item = a[j].work_item
         IN  /\ d = 0 => b = a
             /\ \A j \in 1..Len(a) :
                   /\ AlertsFor(b, a[j].work_item) # {}
                   /\ b[At(j)].title = a[j].title
                   /\ Seconds(b[At(j)].elapsed_minutes) - Seconds(a[j].elapsed_minutes) = d
                   /\ a[j].escalation_target # Absent
                        => b[At(j)].escalation_target = a[j].escalation_target
             /\ \A j, k \in 1..Len(a) : j < k => At(j) < At(k)]_vars

\* C6 witness: a second sweep over the unchanged table, later than the
\* creation of the items, returned alerts.
C6_Witness ==
    /\ response.op = "run_sla_checks"
    /\ response.repeat
    /\ response.at > 0
    /\ Len(response.alerts) = 2

\* The threshold and the target the specification gives for a priority of
\* the matrix.
MatrixPriorities == {Present("priority_1"), Present("priority_2"), Present("priority_3")}

MatrixThreshold(priority) ==
    CASE priority = Present("priority_1") -> 60
      [] priority = Present("priority_2") -> 180
      [] priority = Present("priority_3") -> 360

MatrixTarget(priority) ==
    CASE priority = Present("priority_1") -> "team:incident_managers"
      [] priority = Present("priority_2") -> "team:service_desk"
      [] priority = Present("priority_3") -> "team:operations"

\* C7: get_escalation_target returns the target of the priority exactly
\* when the priority is in the matrix and the elapsed minutes are strictly
\* above its threshold; at the threshold and below, the result is absent.
C7_TargetIffAboveThreshold ==
    response.op = "get_escalation_target" =>
        LET e == response.elapsed_minutes
        IN  IF /\ response.priority \in MatrixPriorities
               /\ e.num > MatrixThreshold(response.priority) * e.den
            THEN response.result = Present(MatrixTarget(response.priority))
            ELSE response.result = Absent

\* C7 witness: priority_1 at exactly 60 minutes got no target.
C7_Witness ==
    /\ response.op = "get_escalation_target"
    /\ response.priority = Present("priority_1")
    /\ response.elapsed_minutes = Frac(3600, 60)
    /\ response.result = Absent

\* C8: for priority_4 and every priority outside the matrix the result is
\* absent whatever the elapsed minutes.
C8_NoRuleNoTarget ==
    (response.op = "get_escalation_target" /\ response.priority \notin MatrixPriorities)
        => response.result = Absent

\* C8 witness: priority_4 after 100000 minutes got no target.
C8_Witness ==
    /\ response.op = "get_escalation_target"
    /\ response.priority = Present("priority_4")
    /\ response.elapsed_minutes = Frac(6000000, 60)
    /\ response.result = Absent

\* The SLA minutes the specification's table gives per work type and
\* priority key.
TableSla(work_type, priority) ==
    CASE work_type = Present("incident") /\ priority = Present("priority_1") -> Present(60)
      [] work_type = Present("incident") /\ priority = Present("priority_2") -> Present(120)
      [] work_type = Present("incident") /\ priority = Present("priority_3") -> Present(240)
      [] work_type = Present("request") /\ priority = Present("standard") -> Present(480)
      [] work_type = Present("problem") /\ priority = Present("default") -> Present(1440)
      [] OTHER -> Absent

\* C9: get_sla_target returns the entry of the priority when the work
\* type's map has one, otherwise the map's default entry when it has one
\* (problem: 1440 for every priority, none included), otherwise absent; so
\* absent for an unregistered work type.
C9_SlaTargetLookup ==
    response.op = "get_sla_target" =>
        response.result =
            IF TableSla(response.work_type, response.priority) # Absent
            THEN TableSla(response.work_type, response.priority)
            ELSE TableSla(response.work_type, Present("default"))

\* C9 witness: problem without a priority got the default 1440.
C9_Witness ==
    /\ response.op = "get_sla_target"
    /\ response.work_type = Present("problem")
    /\ response.priority = Absent
    /\ response.result = Present(1440)

\* C10: request gives 480 for the priority "standard" only and absent for
\* every other priority, incident gives absent for priority_4, and a
\* priority that is no key of the map gets a target for problem alone.
C10_OnlyDefaultFallsBack ==
    response.op = "get_sla_target" =>
        /\ response.work_type = Present("request") =>
              response.result = IF response.priority = Present("standard")
                                THEN Present(480) ELSE Absent
        /\ (response.work_type = Present("incident")
            /\ response.priority = Present("priority_4")) => response.result = Absent
        /\ (TableSla(response.work_type, response.priority) = Absent
            /\ response.result # Absent) => response.work_type = Present("problem")

\* C10 witness: request with a priority other than "standard" got nothing.
C10_Witness ==
    /\ response.op = "get_sla_target"
    /\ response.work_type = Present("request")
    /\ response.priority = Present("priority_9")
    /\ response.result = Absent

(***************************************************************************)
(* The properties of calculate_smart_score.                                *)
(***************************************************************************)
Scored == response.op = "calculate_smart_score"

\* C11 as stated: an evaluation and the one before it, which had the same
\* view and the same current_user_id, return the same score, at whatever
\* clock readings the two ran and whether or not modified_at is there.
C11_SameScoreAtAnyTime ==
    (Scored /\ response.previous # Absent)
        => response.previous[1].result = response.result

\* C11: an evaluation and the one before it, which had the same view and the
\* same current_user_id, return the same score when the view has a
\* modified_at or when both ran at the same clock reading.
C11_SameScoreWithModifiedAt ==
    (/\ Scored
     /\ response.previous # Absent
     /\ \/ response.workitem.modified_at # Absent
        \/ response.previous[1].at = response.at)
        => response.previous[1].result = response.result

\* C11 witness: a view with target 60, created at 0 and modified 60 minutes
\* later scored at 0 and again 60 minutes later, the SLA urgency of 300 in
\* both scores.
C11_Witness ==
    /\ Scored
    /\ response.previous # Absent
    /\ response.workitem.sla_target_minutes = Present(60)
    /\ response.workitem.created_at = Present(0)
    /\ response.workitem.modified_at = Present(3600)
    /\ response.previous[1].at = 0
    /\ response.at = 3600
    /\ response.previous[1].result = response.result
    /\ sla_urgency(response.workitem, response.at) = 300

\* The view with no input at all.
NoInputs ==
    [priority |-> Absent, sla_target_minutes |-> Absent, created_at |-> Absent,
     modified_at |-> Absent, business_service |-> Absent, automation |-> Absent,
     assigned_to |-> Absent]

\* The inputs of one component of a view, the others absent.
OnlySla(v) ==
    [NoInputs EXCEPT !.sla_target_minutes = v.sla_target_minutes,
                     !.created_at = v.created_at, !.modified_at = v.modified_at]

OnlyService(v) == [NoInputs EXCEPT !.business_service = v.business_service]

OnlyAutomation(v) == [NoInputs EXCEPT !.automation = v.automation]

OnlyAssignment(v) == [NoInputs EXCEPT !.assigned_to = v.assigned_to]

\* The priority weights of the specification.
PriorityWeight(priority) ==
    CASE priority = Present("priority_1") -> 400
      [] priority = Present("priority_2") -> 300
      [] priority = Present("priority_3") -> 200
      [] priority = Present("priority_4") -> 100
      [] OTHER -> 0

\* The score of the recorded evaluation less the score, at the same clock
\* reading, of the view v: what the inputs left out of v contribute.
ScoreLess(v) ==
    response.result - calculate_smart_score(v, response.current_user_id, response.at)

\* C12: the score is the priority weight of the specification's table plus
\* the scores of the four views that hold the inputs of one other component
\* each (so each component is computed from its own inputs alone), and the
\* sum is not clamped.
C12_ScoreIsSumOfComponents ==
    Scored =>
        response.result =
            PriorityWeight(response.workitem.priority)
            + calculate_smart_score(OnlySla(response.workitem), Absent, response.at)
            + calculate_smart_score(OnlyService(response.workitem), Absent, response.at)
            + calculate_smart_score(OnlyAutomation(response.workitem), Absent, response.at)
            + calculate_smart_score(OnlyAssignment(response.workitem),
                                    response.current_user_id, response.at)

\* C12 witness: all five components at their largest, 400 + 300 + 200 + 100
\* + 75.
C12_Witness ==
    /\ Scored
    /\ response.workitem.priority = Present("priority_1")
    /\ response.result = 1075
    /\ ScoreLess([response.workitem EXCEPT !.priority = Absent]) = 400
    /\ ScoreLess([response.workitem EXCEPT !.assigned_to = Absent]) = 75

\* The SLA urgency the specification's thresholds give for remaining
\* minutes = target - (reference - created) / 60, times in seconds.
ThresholdUrgency(target, created, reference) ==
    LET remaining == Frac(target * SecondsPerMinute - (reference - created),
                          SecondsPerMinute)
    IN  IF FracLE(remaining, 0) THEN 300
        ELSE IF FracLE(remaining, 15) THEN 250
        ELSE IF FracLE(remaining, 30) THEN 200
        ELSE IF FracLE(remaining, 60) THEN 100
        ELSE 0

\* C13: the SLA urgency in the score is the thresholds' value whenever
\* sla_target_minutes (a target of 0 included) and created_at are both
\* there, the reference time being modified_at or else the time of the
\* evaluation, and it is 0 when one of the two is missing.
C13_SlaUrgencyByThresholds ==
    Scored =>
        LET v == response.workitem
            part == ScoreLess([v EXCEPT !.sla_target_minutes = Absent])
        IN  IF v.sla_target_minutes # Absent /\ v.created_at # Absent
            THEN part = ThresholdUrgency(v.sla_target_minutes[1], v.created_at[1],
                                         IF v.modified_at # Absent
                                         THEN v.modified_at[1] ELSE response.at)
            ELSE part = 0

\* The revenue figure of a view, if a service with one is linked.
RevenueOf(v) ==
    IF v.business_service # Absent
    THEN DictGet(v.business_service[1], Present("revenue_impact_per_hour"), Absent)
    ELSE Absent

\* floor(q / 100000) and q / 100000 rounded toward zero.
Floor100k(q) == q.num \div (q.den * 100000)

Trunc100k(q) ==
    IF q.num >= 0 THEN q.num \div (q.den * 100000)
    ELSE -((-q.num) \div (q.den * 100000))

\* q1 <= q2 for fractions with positive denominators.
FracLEQ(q1, q2) == q1.num * q2.den <= q2.num * q1.den

\* C14 as stated: the business impact in the score is
\* min(floor(revenue / 100000) * 50, 200) when a service with a revenue
\* figure is linked and 0 otherwise.
C14_BusinessImpactFloor ==
    Scored =>
        LET v == response.workitem
            part == ScoreLess([v EXCEPT !.business_service = Absent])
        IN  part = IF RevenueOf(v) # Absent
                   THEN min(Floor100k(RevenueOf(v)[1]) * 50, 200)
                   ELSE 0

\* C14: the business impact in the score is min(t * 50, 200), t being
\* revenue / 100000 rounded toward zero, when a service with a revenue
\* figure is linked and 0 otherwise; it never exceeds 200; and a larger
\* revenue figure in the same view never gives a smaller score.
C14_BusinessImpactTruncated ==
    Scored =>
        LET v == response.workitem
            part == ScoreLess([v EXCEPT !.business_service = Absent])
        IN  /\ part = IF RevenueOf(v) # Absent
                      THEN min(Trunc100k(RevenueOf(v)[1]) * 50, 200)
                      ELSE 0
            /\ part <= 200
            /\ RevenueOf(v) # Absent =>
                   \A r \in RevenueInputs :
                       FracLEQ(RevenueOf(v)[1], r) =>
                           ScoreLess([v EXCEPT !.business_service =
                               Present([revenue_impact_per_hour |-> Present(r)])]) <= 0

\* C14 witness: a revenue of 399999.5 scores 150 and one of 1000000 would
\* score the capped 200.
C14_Witness ==
    /\ Scored
    /\ RevenueOf(response.workitem) = Present(Frac(799999, 2))
    /\ ScoreLess([response.workitem EXCEPT !.business_service = Absent]) = 150
    /\ ScoreLess([response.workitem EXCEPT !.business_service =
           Present([revenue_impact_per_hour |-> Present(Frac(1000000, 1))])]) = -50

\* The id and the team of the assignee of a view.
AssigneeId(v) == DictGet(v.assigned_to[1], Present("id"), Absent)

AssigneeTeam(v) == DictGet(v.assigned_to[1], Present("team"), Absent)

\* C15 as stated: the assignment bonus in the score is 75 whenever the item
\* is assigned (an assignee that is not empty) and current_user_id equals
\* the assignee's id, otherwise 50 when the assignee has a team, otherwise 0.
C15_BonusWheneverIdsEqual ==
    Scored =>
        LET v == response.workitem
            part == ScoreLess([v EXCEPT !.assigned_to = Absent])
        IN  part = IF ~TruthyDict(v.assigned_to) THEN 0
                   ELSE IF AssigneeId(v) = response.current_user_id THEN 75
                   ELSE IF Truthy(AssigneeTeam(v)) THEN 50
                   ELSE 0

\* C15: the assignment bonus in the score is 75 when the item is assigned
\* and current_user_id is given (neither None nor empty) and equals the
\* assignee's id, otherwise 50 when the assignee has a team, otherwise 0:
\* never 125, and 0 for an unassigned item.
C15_BonusForGivenUserId ==
    Scored =>
        LET v == response.workitem
            part == ScoreLess([v EXCEPT !.assigned_to = Absent])
        IN  part = IF ~TruthyDict(v.assigned_to) THEN 0
                   ELSE IF /\ Truthy(response.current_user_id)
                           /\ AssigneeId(v) = response.current_user_id THEN 75
                   ELSE IF Truthy(AssigneeTeam(v)) THEN 50
                   ELSE 0

\* C15 witness: the assignee u1 of team ops scored for u1 brings 75, not
\* 125.
C15_Witness ==
    /\ Scored
    /\ response.current_user_id = Present("u1")
    /\ response.workitem.assigned_to = Present([id |-> Present("u1"), team |-> Present("ops")])
    /\ ScoreLess([response.workitem EXCEPT !.assigned_to = Absent]) = 75

\* A key of the automation summary of a view.
AutomationKey(v, key) == DictGet(v.automation[1], Present(key), Absent)

\* C16: the automation bonus in the score is 100 when a summary is attached
\* with success_rate > 80 and auto_executable true, otherwise 50 when the
\* summary is marked eligible, otherwise 0: never 150.
C16_AutomationBonus ==
    Scored =>
        LET v == response.workitem
            part == ScoreLess([v EXCEPT !.automation = Absent])
        IN  part = IF v.automation = Absent THEN 0
                   ELSE IF /\ AutomationKey(v, "success_rate") # Absent
                           /\ AutomationKey(v, "success_rate")[1] > 80
                           /\ AutomationKey(v, "auto_executable") = Present(TRUE) THEN 100
                   ELSE IF AutomationKey(v, "eligible") = Present(TRUE) THEN 50
                   ELSE 0

\* C16 witness: a summary with success_rate 80, auto_executable and eligible
\* brings 50.
C16_Witness ==
    /\ Scored
    /\ response.workitem.automation =
           Present([success_rate |-> Present(80), auto_executable |-> Present(TRUE),
                    eligible |-> Present(TRUE)])
    /\ ScoreLess([response.workitem EXCEPT !.automation = Absent]) = 50

(***************************************************************************)
(* The properties of is_work_item_eligible_for_automation.                 *)
(***************************************************************************)
EligibilityChecked == response.op = "is_work_item_eligible_for_automation"

\* A keyword, compared without regard to case, is a substring of the title
\* immediately followed by the description.
KeywordOccurs(kw, wi) == IsSubstring(lower(kw), lower(wi.title \o wi.description))

\* A condition is satisfied, in the words of the specification: each of its
\* non-empty fields holds.
Satisfied(wi, cond) ==
    /\ cond.work_types # <<>> =>
           wi.work_type \in {cond.work_types[j] : j \in 1..Len(cond.work_types)}
    /\ cond.asset_types # <<>> =>
           /\ wi.asset # Absent
           /\ wi.asset[1].asset_type \in
                  {cond.asset_types[j] : j \in 1..Len(cond.asset_types)}
    /\ cond.keywords # <<>> =>
           \E j \in 1..Len(cond.keywords) : KeywordOccurs(cond.keywords[j], wi)

\* The conditions of a rule in the opposite order.
Reversed(rule) ==
    [trigger_conditions |->
        [i \in 1..Len(rule.trigger_conditions) |->
            rule.trigger_conditions[Len(rule.trigger_conditions) + 1 - i]]]

\* C17: the answer is true exactly when the work item satisfies every
\* trigger condition of the rule (an item with no asset failing a condition
\* with non-empty asset_types), and the rule with its conditions in the
\* opposite order gets the same answer.
C17_EligibleIffEveryConditionHolds ==
    EligibilityChecked =>
        LET wi == response.work_item
            conds == response.rule.trigger_conditions
        IN  /\ response.result <=> \A i \in 1..Len(conds) : Satisfied(wi, conds[i])
            /\ response.result
                   = is_work_item_eligible_for_automation(wi, Reversed(response.rule))

\* C17 witness: an incident without asset, a first condition on work_types
\* that it satisfies and a second one on asset_types that it fails: not
\* eligible.
C17_Witness ==
    /\ EligibilityChecked
    /\ response.work_item.work_type = "incident"
    /\ response.work_item.asset = Absent
    /\ Len(response.rule.trigger_conditions) = 2
    /\ response.rule.trigger_conditions[1] =
           [work_types |-> <<"incident">>, asset_types |-> <<>>, keywords |-> <<>>]
    /\ response.rule.trigger_conditions[2] =
           [work_types |-> <<>>, asset_types |-> <<"server">>, keywords |-> <<>>]
    /\ response.result = FALSE

\* A condition whose three lists are empty.
Unconstrained(cond) ==
    cond.work_types = <<>> /\ cond.asset_types = <<>> /\ cond.keywords = <<>>

\* C18: a rule with no trigger condition, or whose trigger conditions all
\* have empty work_types, asset_types and keywords, makes the work item
\* eligible whatever its work_type, asset, title and description.
C18_EmptyRuleMakesEligible ==
    (/\ EligibilityChecked
     /\ \A i \in 1..Len(response.rule.trigger_conditions) :
            Unconstrained(response.rule.trigger_conditions[i]))
        => response.result = TRUE

\* C18 witness: a change with a laptop is eligible for the rule without
\* conditions.
C18_Witness ==
    /\ EligibilityChecked
    /\ response.rule.trigger_conditions = <<>>
    /\ response.work_item.work_type = "change"
    /\ response.work_item.asset = Present([asset_type |-> "laptop"])
    /\ response.result = TRUE

\* The upper-case letter of each lower-case letter of the alphabet in use.
UpperCase == [a |-> "A", b |-> "B", d |-> "D", x |-> "X"]

upper(s) ==
    [i \in 1..Len(s) |-> IF s[i] \in DOMAIN UpperCase THEN UpperCase[s[i]] ELSE s[i]]

\* The rule with every keyword in upper case.
UpperKeywords(rule) ==
    [trigger_conditions |->
        [i \in 1..Len(rule.trigger_conditions) |->
            [rule.trigger_conditions[i] EXCEPT
                !.keywords = [j \in 1..Len(@) |-> upper(@[j])]]]]

\* A rule of one condition that constrains the keywords only.
KeywordsOnly(rule) ==
    /\ Len(rule.trigger_conditions) = 1
    /\ rule.trigger_conditions[1].work_types = <<>>
    /\ rule.trigger_conditions[1].asset_types = <<>>
    /\ rule.trigger_conditions[1].keywords # <<>>

\* C19: for a rule of one condition with non-empty keywords and nothing
\* else, the answer is true exactly when one of the keywords, compared
\* without regard to case, is a substring of the title immediately followed
\* by the description; and for every rule the answer stays the same when
\* the title and the description, or the keywords, are put in upper case.
C19_KeywordMatchIgnoresCase ==
    EligibilityChecked =>
        LET wi == response.work_item
            rule == response.rule
        IN  /\ KeywordsOnly(rule) =>
                   (response.result <=>
                       \E j \in 1..Len(rule.trigger_conditions[1].keywords) :
                           KeywordOccurs(rule.trigger_conditions[1].keywords[j], wi))
            /\ response.result = is_work_item_eligible_for_automation(
                   [wi EXCEPT !.title = upper(@), !.description = upper(@)], rule)
            /\ response.result
                   = is_work_item_eligible_for_automation(wi, UpperKeywords(rule))

\* C19 witness: the keyword "bB" is found in the title "Db" followed by the
\* description "Bx", across the place where the two meet.
C19_Witness ==
    /\ EligibilityChecked
    /\ KeywordsOnly(response.rule)
    /\ response.rule.trigger_conditions[1].keywords = << <<"b", "B">> >>
    /\ response.work_item.title = <<"D", "b">>
    /\ response.work_item.description = <<"B", "x">>
    /\ response.result = TRUE

(***************************************************************************)
(* The properties of calculate_business_impact.                            *)
(***************************************************************************)
\* C20: for a work item with no business service the call returns a
\* revenue_loss of 0.0 and the downtime_minutes it was given, whatever the
\* duration (none at all included).
C20_NoServiceNoLoss ==
    (/\ response.op = "calculate_business_impact"
     /\ response.work_item.business_service = Absent)
        => /\ ~response.raised
           /\ response.result # Absent
           /\ response.result[1].revenue_loss.num = 0
           /\ response.result[1].downtime_minutes = response.duration_minutes

\* C20 witness: no service and 45 minutes give 45 minutes and no loss.
C20_Witness ==
    /\ response.op = "calculate_business_impact"
    /\ response.work_item.business_service = Absent
    /\ response.duration_minutes = Present(45)
    /\ response.result = Present([downtime_minutes |-> Present(45),
                                  revenue_loss |-> Frac(0, 1)])

\* The hourly rate of the service of a work item, a null rate as 0.
RateOf(wi) ==
    IF wi.business_service[1].revenue_impact_per_hour = Absent
    THEN Frac(0, 1)
    ELSE wi.business_service[1].revenue_impact_per_hour[1]

\* C21: for a work item with a business service the call never raises; with
\* a duration it returns the duration as downtime_minutes and a
\* revenue_loss of (duration_minutes / 60) x the hourly rate (a null rate as
\* 0), and with a null duration it returns a revenue_loss of 0.
C21_ServiceLossProRated ==
    (/\ response.op = "calculate_business_impact"
     /\ response.work_item.business_service # Absent)
        => /\ ~response.raised
           /\ response.result # Absent
           /\ IF response.duration_minutes = Absent
              THEN response.result[1].revenue_loss.num = 0
              ELSE /\ response.result[1].downtime_minutes = response.duration_minutes
                   /\ response.result[1].revenue_loss.num
                          * (60 * RateOf(response.work_item).den)
                      = response.duration_minutes[1] * RateOf(response.work_item).num
                          * response.result[1].revenue_loss.den

(***************************************************************************)
(* The properties of the SLA check job as a request among the others.      *)
(***************************************************************************)
\* C22: a request that runs the SLA check job (the step that leaves its
\* response, the clock standing still) leaves the table of work items as it
\* is: every field of every row, and the rows there are; all it leaves is
\* its response.
C22_SweepLeavesRowsUnchanged ==
    [][(response'.op = "run_sla_checks" /\ now' = now) => rows' = rows]_vars

\* C22 witness: a second sweep in a row has answered with an alert for a work
\* item that still has the status new and was never saved since it was
\* created.
C22_Witness ==
    /\ response.op = "run_sla_checks"
    /\ response.code = 200
    /\ response.repeat
    /\ \E i \in 1..Len(rows) :
          /\ rows[i].status = "new"
          /\ rows[i].modified_at = rows[i].created_at
          /\ \E j \in 1..Len(response.alerts) : response.alerts[j].work_item = rows[i].id

(***************************************************************************)
(* The properties of concurrent invocations of the SLA check job.          *)
(***************************************************************************)
\* C23: an invocation that has returned holds exactly one alert for every
\* open work item that was in breach when the invocation began, whatever
\* the other invocations have done or returned.
C23_EachInvocationAlertsEveryBreach ==
    response.op = "jobs" =>
        \A j \in Jobs :
            response.jobs[j].pc = "done" =>
                \A i \in 1..Len(OpenRows) :
                    Breached(OpenRows[i], response.jobs[j].at) =>
                        Cardinality(AlertsFor(response.jobs[j].alerts, OpenRows[i].id)) = 1

\* C23 witness: the second invocation began at 3600 and is still in its
\* loop; the first one, running meanwhile, has returned an alert for work
\* item 1 made at 3630, and the second holds an alert for work item 1 too.
C23_Witness ==
    /\ response.op = "jobs"
    /\ response.jobs[1].pc = "done"
    /\ \E a \in AlertsFor(response.jobs[1].alerts, 1) :
           response.jobs[1].alerts[a].elapsed_minutes = Frac(3630, SecondsPerMinute)
    /\ response.jobs[2].pc = "loop"
    /\ response.jobs[2].at = 3600
    /\ AlertsFor(response.jobs[2].alerts, 1) # {}

(***************************************************************************)
(* Further properties of the escalation matrix.                            *)
(***************************************************************************)
\* C24: the result of get_escalation_target for a priority and an elapsed
\* time is the result for the same priority and elapsed time with any other
\* work_type, registered or not, or none.
C24_TargetIgnoresWorkType ==
    response.op = "get_escalation_target" =>
        \A work_type \in WorkTypeArgs :
            get_escalation_target(response.priority, work_type, response.elapsed_minutes)
                = response.result

\* C24 witness: a priority_1 item of the unregistered work type change got
\* the incident managers after 61 minutes.
C24_Witness ==
    /\ response.op = "get_escalation_target"
    /\ response.work_type = Present("change")
    /\ response.priority = Present("priority_1")
    /\ response.elapsed_minutes = Frac(61, 1)
    /\ response.result = Present("team:incident_managers")

(***************************************************************************)
(* The properties of run_execution_steps.                                  *)
(***************************************************************************)
\* C25: the runner returns as many records as the rule has steps, each with
\* the status success; the records are those of the steps taken in an
\* ascending order of their order field, each with the action and the
\* params of its step; a rule without steps gives the empty list; and the
\* work item is as it was passed in.
C25_OneRecordPerStepInOrder ==
    response.op = "run_execution_steps" =>
        LET steps == rows[1].rule.execution_steps
            n == Len(steps)
        IN  /\ Len(response.results) = n
            /\ \A k \in 1..n : response.results[k].status = "success"
            /\ \E p \in [1..n -> 1..n] :
                  /\ \A i \in 1..n : \E k \in 1..n : p[k] = i
                  /\ \A k \in 1..n : \A l \in 1..n :
                         k < l => steps[p[k]].order <= steps[p[l]].order
                  /\ \A k \in 1..n :
                         /\ response.results[k].action = steps[p[k]].action
                         /\ response.results[k].params = steps[p[k]].params
            /\ (n = 0 => response.results = <<>>)
            /\ response.work_item = rows[1].work_item

\* C25 witness: the steps stored as (3, notify), (1, restart), (2, notify
\* with params) came back as restart, notify with params, notify.
C25_Witness ==
    /\ response.op = "run_execution_steps"
    /\ rows[1].rule.execution_steps =
           <<[order |-> 3, action |-> "notify", params |-> EmptyDict],
             [order |-> 1, action |-> "restart", params |-> EmptyDict],
             [order |-> 2, action |-> "notify", params |-> [service |-> "web"]]>>
    /\ response.results =
           <<[action |-> "restart", params |-> EmptyDict, status |-> "success"],
             [action |-> "notify", params |-> [service |-> "web"], status |-> "success"],
             [action |-> "notify", params |-> EmptyDict, status |-> "success"]>>

(***************************************************************************)
(* The properties of the sweeps over the life of a work item.              *)
(***************************************************************************)
\* The alerts of a sweep at clock reading t over the one row wi.
AlertsAt(wi, t) == sweep(<<wi>>, 1, t, <<>>).alerts

\* C26: when a sweep has answered, every row that is open in it and that a
\* sweep at an earlier clock reading alerts with the same created_at,
\* sla_target_minutes and priority has an alert in the answer, and where the
\* earlier alert carries an escalation target the alert in the answer
\* carries the same target.
C26_AlertAndTargetPersist ==
    (response.op = "run_sla_checks" /\ response.code = 200) =>
        \A i \in 1..Len(OpenRows) : \A t \in SweepTimes :
            (t <= response.at /\ AlertsAt(OpenRows[i], t) # <<>>) =>
                \E j \in AlertsFor(response.alerts, OpenRows[i].id) :
                    AlertsAt(OpenRows[i], t)[1].escalation_target # Absent =>
                        response.alerts[j].escalation_target
                            = AlertsAt(OpenRows[i], t)[1].escalation_target

\* C26 witness: a priority_1 work item with an SLA of 60 minutes, alerted
\* with the incident managers as target by a sweep at 60.5 minutes, is
\* alerted with the same target by the sweep at 361 minutes, its status
\* having been updated in between.
C26_Witness ==
    /\ response.op = "run_sla_checks"
    /\ response.code = 200
    /\ response.at = 21660
    /\ Len(rows) = 1
    /\ rows[1].priority = "priority_1"
    /\ rows[1].sla_target_minutes = Present(60)
    /\ rows[1].status = "in_progress"
    /\ rows[1].modified_at = Present(7260)
    /\ AlertsAt(rows[1], 3630)[1].escalation_target = Present("team:incident_managers")
    /\ \E j \in AlertsFor(response.alerts, 1) :
          response.alerts[j].escalation_target = Present("team:incident_managers")

\* C27: when a sweep has answered, every open row whose elapsed time
\* exceeds its SLA target has an alert, with or without an escalation
\* target, and an alert carries an escalation target exactly when the
\* priority of its row is in the escalation matrix and the elapsed minutes
\* exceed the threshold of that priority.
C27_AlertWithoutTarget ==
    (response.op = "run_sla_checks" /\ response.code = 200) =>
        \A i \in 1..Len(OpenRows) :
            /\ Breached(OpenRows[i], response.at) =>
                  AlertsFor(response.alerts, OpenRows[i].id) # {}
            /\ \A j \in AlertsFor(response.alerts, OpenRows[i].id) :
                  response.alerts[j].escalation_target # Absent
                      <=> /\ Present(OpenRows[i].priority) \in MatrixPriorities
                          /\ response.at - OpenRows[i].created_at[1]
                               > MatrixThreshold(Present(OpenRows[i].priority))
                                   * SecondsPerMinute

\* C27 witness: a sweep at 121 minutes alerts a priority_2 work item with
\* an SLA of 120 minutes and gives no escalation target.
C27_Witness ==
    /\ response.op = "run_sla_checks"
    /\ response.code = 200
    /\ response.at = 7260
    /\ Len(rows) = 1
    /\ rows[1].priority = "priority_2"
    /\ rows[1].sla_target_minutes = Present(120)
    /\ \E j \in AlertsFor(response.alerts, 1) :
          response.alerts[j].escalation_target = Absent

\* C28: an update_status request for a stored work item with a status
\* registered for its work type succeeds whatever the current status of the
\* work item is, closed or equal to the requested one included, and leaves
\* the work item in the requested status.
C28_AnyStatusToAnyStatus ==
    [][(/\ response'.op = "update_status"
        /\ now' = now
        /\ Lookup(response'.pk) # 0
        /\ response'.status # Absent
        /\ response'.status[1]
             \in RegisteredStatuses(Present(rows[Lookup(response'.pk)].work_type)))
       => /\ response'.code = 200
          /\ rows'[Lookup(response'.pk)].status = response'.status[1]]_vars

\* C28 witness: a work item stored as closed has been set to new and, past
\* its SLA target, is alerted by the sweep again.
C28_Witness ==
    /\ response.op = "run_sla_checks"
    /\ response.code = 200
    /\ Len(rows) = 1
    /\ rows[1].title = "Old outage"
    /\ rows[1].status = "new"
    /\ \E j \in AlertsFor(response.alerts, 1) : response.alerts[j].title = "Old outage"

(***************************************************************************)
(* The range of the score.                                                 *)
(***************************************************************************)
\* The seconds from created_at to the reference time of the SLA urgency:
\* modified_at, or the time of the evaluation when there is none.
ElapsedSeconds(v) ==
    (IF v.modified_at # Absent THEN v.modified_at[1] ELSE response.at) - v.created_at[1]

NonNegativeRevenue(v) == RevenueOf(v) = Absent \/ RevenueOf(v)[1].num >= 0

\* What a view of the maximum score has apart from its SLA: priority_1, at
\* least 400000 of hourly revenue, an auto-executable automation with
\* success_rate > 80 and the current user as assignee.
MaximalApartFromSla(v) ==
    /\ v.priority = Present("priority_1")
    /\ RevenueOf(v) # Absent
    /\ FracLEQ(Frac(400000, 1), RevenueOf(v)[1])
    /\ v.automation # Absent
    /\ AutomationKey(v, "success_rate") # Absent
    /\ AutomationKey(v, "success_rate")[1] > 80
    /\ AutomationKey(v, "auto_executable") = Present(TRUE)
    /\ TruthyDict(v.assigned_to)
    /\ Truthy(response.current_user_id)
    /\ AssigneeId(v) = response.current_user_id

HasSlaClock(v) == v.sla_target_minutes # Absent /\ v.created_at # Absent

\* C29 as stated: with a non-negative revenue the score is in 0..1075, and
\* a score of 1075 comes only from a priority_1 view whose SLA is breached
\* (more minutes elapsed than the target), with at least 400000 of hourly
\* revenue, an auto-executable automation with success_rate > 80 and the
\* current user as assignee.
C29_MaximumOnlyWhenBreached ==
    (Scored /\ NonNegativeRevenue(response.workitem)) =>
        /\ response.result \in 0..1075
        /\ response.result = 1075 =>
              /\ MaximalApartFromSla(response.workitem)
              /\ HasSlaClock(response.workitem)
              /\ ElapsedSeconds(response.workitem)
                   > response.workitem.sla_target_minutes[1] * SecondsPerMinute

\* C29: with a non-negative revenue the score is in 0..1075, and a score of
\* 1075 comes only from a priority_1 view with no SLA time remaining (at
\* least as many minutes elapsed as the target, which is not 0), with at
\* least 400000 of hourly revenue, an auto-executable automation with
\* success_rate > 80 and the current user as assignee.
C29_MaximumOnlyWhenNoTimeRemains ==
    (Scored /\ NonNegativeRevenue(response.workitem)) =>
        /\ response.result \in 0..1075
        /\ response.result = 1075 =>
              /\ MaximalApartFromSla(response.workitem)
              /\ HasSlaClock(response.workitem)
              /\ response.workitem.sla_target_minutes[1] # 0
              /\ ElapsedSeconds(response.workitem)
                   >= response.workitem.sla_target_minutes[1] * SecondsPerMinute

\* C29 witness: a view with exactly 400000 of hourly revenue, evaluated with
\* exactly its SLA target elapsed, scores 1075.
C29_Witness ==
    /\ Scored
    /\ response.result = 1075
    /\ RevenueOf(response.workitem) = Present(Frac(400000, 1))
    /\ HasSlaClock(response.workitem)
    /\ ElapsedSeconds(response.workitem)
         = response.workitem.sla_target_minutes[1] * SecondsPerMinute

(***************************************************************************)
(* The properties of the compliance check job.                             *)
(***************************************************************************)
\* The certificates in the table tbl that are valid and past their expiry
\* date on the day of the clock reading t.
ValidPastExpiry(tbl, t) ==
    {i \in 1..Len(tbl) : tbl[i].status = "valid" /\ tbl[i].expiry_date < date(t)}

\* C30: a run of the job sets to expired exactly the certificates that are
\* valid with an expiry date before today, returns as many alerts as there
\* are such certificates, each with the asset and the type of one of them,
\* and leaves every other certificate as it is; after it no certificate is
\* valid and past its expiry date, no expired certificate has become valid,
\* and a run coming straight after a run of the same day returns no alert.
C30_ExpiresExactlyValidPastExpiry ==
    [][(response'.op = "run_compliance_checks" /\ now' = now) =>
          /\ Len(rows') = Len(rows)
          /\ \A i \in 1..Len(rows) :
                /\ i \in ValidPastExpiry(rows, now) =>
                      /\ rows'[i].status = "expired"
                      /\ [rows'[i] EXCEPT !.status = "valid",
                                          !.modified_at = rows[i].modified_at] = rows[i]
                /\ i \notin ValidPastExpiry(rows, now) => rows'[i] = rows[i]
                /\ rows[i].status = "expired" => rows'[i].status = "expired"
          /\ Len(response'.expired) = Cardinality(ValidPastExpiry(rows, now))
          /\ \A i \in ValidPastExpiry(rows, now) :
                Cardinality({k \in 1..Len(response'.expired) :
                                response'.expired[k]
                                  = [asset |-> rows[i].asset,
                                     certificate |-> rows[i].certificate_type]})
                  = Cardinality({l \in ValidPastExpiry(rows, now) :
                                    /\ rows[l].asset = rows[i].asset
                                    /\ rows[l].certificate_type = rows[i].certificate_type})
          /\ ValidPastExpiry(rows', now') = {}
          /\ (response.op = "run_compliance_checks" /\ date(response.at) = date(now))
                => response'.expired = <<>>]_vars

\* C30 witness: at noon of day 1 the job has returned no alert, the
\* certificate it set to expired at midnight of that day being still
\* expired, and a valid certificate that expires on day 1 being still valid.
C30_Witness ==
    /\ response.op = "run_compliance_checks"
    /\ response.at = 129600
    /\ response.expired = <<>>
    /\ Len(rows) = 2
    /\ rows[1].status = "expired"
    /\ rows[1].expiry_date = 0
    /\ rows[1].modified_at = Present(86400)
    /\ rows[2].status = "valid"
    /\ rows[2].expiry_date = 1
    /\ rows[2].modified_at = Present(0)

====
